---- MODULE Spec2Model ----
(***************************************************************************)
(* A model of beapy/bea_responses.py: the depth-agnostic field locator     *)
(* getitem_any_level and the response assembly of                          *)
(* BEAResponse.from_response, including the DataResponse builder.          *)
(*                                                                         *)
(* A JSON document is a tree of nodes.  Every node is a record             *)
(*   [t, kids, s]                                                          *)
(* with t = "map" (a dict, kids = its items in insertion order),           *)
(*      t = "seq" (a list, kids = its elements, item keys unused),         *)
(*      t = "str" (a string, s = the string).                              *)
(* The conversions of the code (lower(), replace(',', ''), isnumeric(),    *)
(* to_numeric, astype(str), str.cat) are computed character by character   *)
(* on Chars(s), the characters of s, one per element.                      *)
(***************************************************************************)
EXTENDS Integers, Sequences, FiniteSets, TLC

VARIABLES
    tree,       \* SpecLocate: the dict handed to getitem_any_level
    calls,      \* SpecLocate: the calls made so far, oldest first
    pc,         \* the position of the run
    input,      \* from_response: the options the response was made from
    document,   \* from_response: the document the response carries, as received
    url,        \* from_response: response.url
    bea_json,   \* from_response: the local bea_json, self.bea_json of a DataResponse
    request,    \* from_response: the dict of request parameters
    result,     \* from_response: the located Results block
    klass,      \* from_response: the response class chosen
    exc,        \* from_response: the exception raised to the caller
    response    \* from_response: the object returned to the caller

vars == <<tree, calls, pc, input, document, url, bea_json, request, result, klass, exc, response>>

----------------------------------------------------------------------------
(* Document nodes *)

Str(s) == [t |-> "str", kids |-> <<>>, s |-> s]
Item(k, v) == [k |-> k, v |-> v]
Map(items) == [t |-> "map", kids |-> items, s |-> ""]
Lst(elems) == [t |-> "seq", kids |-> [i \in 1..Len(elems) |-> Item("", elems[i])], s |-> ""]

\* the value of a call that raised: there is none
NoValue == [t |-> "none", kids |-> <<>>, s |-> ""]

RemoveAt(seq, i) == [j \in 1..(Len(seq) - 1) |-> IF j < i THEN seq[j] ELSE seq[j + 1]]

----------------------------------------------------------------------------
(* getitem_any_level *)

\* isinstance(obj, abc.Iterable) and not isinstance(obj, str)
iterable_not_str(obj) == obj.t \in {"map", "seq"}

\* dct.keys() raises AttributeError on anything that is not a dict
has_keys(dct) == dct.t = "map"

\* the outcome of one call: ok = FALSE is a KeyError; dct is the argument as
\* the call leaves it (pop mutates it in place)
Found(val, dct) == [ok |-> TRUE, val |-> val, dct |-> dct]
KeyError(dct) == [ok |-> FALSE, val |-> NoValue, dct |-> dct]

\* key in level_keys
KeyIndex(dct, key) == {i \in 1..Len(dct.kids) : dct.kids[i].k = key}

\* lines 79-82: the key is at this level
TakeNoPop(dct, i, pop) == Found(dct.kids[i].v, dct)
TakeItem(dct, i, pop) ==
    IF pop
    THEN Found(dct.kids[i].v, [dct EXCEPT !.kids = RemoveAt(dct.kids, i)])
    ELSE Found(dct.kids[i].v, dct)

\* lines 74-75: `for d in dct: return getitem_any_level(d, key, pop)` leaves
\* the loop in its first iteration, by the return or by the KeyError
ElementsSearchedNone(dct) == {}
ElementsSearched(dct) == IF Len(dct.kids) > 0 THEN {1} ELSE {}

RECURSIVE getitem_any_level(_, _, _)
RECURSIVE SearchValues(_, _, _, _)

\* lines 84-89: the values of the dict in key order, KeyError swallowed
SearchValues(dct, key, pop, i) ==
    IF i > Len(dct.kids)
    THEN KeyError(dct)
    ELSE LET r == getitem_any_level(dct.kids[i].v, key, pop) IN
         IF r.ok
         THEN Found(r.val, [dct EXCEPT !.kids[i].v = r.dct])
         ELSE SearchValues(dct, key, pop, i + 1)

getitem_any_level(dct, key, pop) ==
    IF ~has_keys(dct)
    THEN IF iterable_not_str(dct) /\ ElementsSearched(dct) # {}
         THEN LET i == CHOOSE j \in ElementsSearched(dct) : TRUE
                  r == getitem_any_level(dct.kids[i].v, key, pop)
              IN  IF r.ok
                  THEN Found(r.val, [dct EXCEPT !.kids[i].v = r.dct])
                  ELSE KeyError(dct)
         ELSE KeyError(dct)
    ELSE IF KeyIndex(dct, key) # {}
         THEN TakeItem(dct, CHOOSE i \in KeyIndex(dct, key) : TRUE, pop)
         ELSE SearchValues(dct, key, pop, 1)

----------------------------------------------------------------------------
(* Strings, character by character *)

\* the characters of the strings that occur as values in the documents
Chars(s) ==
    CASE s = "5" -> <<"5">>
      [] s = "1,234" -> <<"1", ",", "2", "3", "4">>
      [] s = "12.5" -> <<"1", "2", ".", "5">>
      [] s = "-3" -> <<"-", "3">>
      [] s = "(D)" -> <<"(", "D", ")">>
      [] s = "0" -> <<"0">>
      [] s = "1" -> <<"1">>
      [] s = "3" -> <<"3">>
      [] s = "A" -> <<"A">>
      [] s = "B" -> <<"B">>
      [] s = "2019" -> <<"2", "0", "1", "9">>
      [] s = "2020" -> <<"2", "0", "2", "0">>
      [] s = "10" -> <<"1", "0">>
      [] s = "nipa" -> <<"n", "i", "p", "a">>
      [] s = "niunderlyingdetail" -> <<"n", "i", "u", "n", "d", "e", "r", "l", "y", "i", "n", "g", "d", "e", "t", "a", "i", "l">>
      [] s = "fixedassets" -> <<"f", "i", "x", "e", "d", "a", "s", "s", "e", "t", "s">>
      [] s = "gdpbyindustry" -> <<"g", "d", "p", "b", "y", "i", "n", "d", "u", "s", "t", "r", "y">>
      [] s = "underlyinggdpbyindustry" -> <<"u", "n", "d", "e", "r", "l", "y", "i", "n", "g", "g", "d", "p", "b", "y", "i", "n", "d", "u", "s", "t", "r", "y">>
      [] s = "ita" -> <<"i", "t", "a">>
      [] s = "iip" -> <<"i", "i", "p">>
      [] s = "intlservtrade" -> <<"i", "n", "t", "l", "s", "e", "r", "v", "t", "r", "a", "d", "e">>
      [] s = "mne" -> <<"m", "n", "e">>
      [] s = "inputoutput" -> <<"i", "n", "p", "u", "t", "o", "u", "t", "p", "u", "t">>
      [] s = "regional" -> <<"r", "e", "g", "i", "o", "n", "a", "l">>
      [] s = "NIPA" -> <<"N", "I", "P", "A">>
      [] s = "NIUnderlyingDetail" -> <<"N", "I", "U", "n", "d", "e", "r", "l", "y", "i", "n", "g", "D", "e", "t", "a", "i", "l">>
      [] s = "FixedAssets" -> <<"F", "i", "x", "e", "d", "A", "s", "s", "e", "t", "s">>
      [] s = "GDPbyIndustry" -> <<"G", "D", "P", "b", "y", "I", "n", "d", "u", "s", "t", "r", "y">>
      [] s = "UnderlyingGDPbyIndustry" -> <<"U", "n", "d", "e", "r", "l", "y", "i", "n", "g", "G", "D", "P", "b", "y", "I", "n", "d", "u", "s", "t", "r", "y">>
      [] s = "ITA" -> <<"I", "T", "A">>
      [] s = "IIP" -> <<"I", "I", "P">>
      [] s = "IntlServTrade" -> <<"I", "n", "t", "l", "S", "e", "r", "v", "T", "r", "a", "d", "e">>
      [] s = "MNE" -> <<"M", "N", "E">>
      [] s = "InputOutput" -> <<"I", "n", "p", "u", "t", "O", "u", "t", "p", "u", "t">>
      [] s = "Regional" -> <<"R", "e", "g", "i", "o", "n", "a", "l">>
      [] s = "Census" -> <<"C", "e", "n", "s", "u", "s">>
      [] s = "nipa2" -> <<"n", "i", "p", "a", "2">>
      [] OTHER -> <<s>>

Digits == {"0", "1", "2", "3", "4", "5", "6", "7", "8", "9"}

DigitVal(c) ==
    CASE c = "0" -> 0
      [] c = "1" -> 1
      [] c = "2" -> 2
      [] c = "3" -> 3
      [] c = "4" -> 4
      [] c = "5" -> 5
      [] c = "6" -> 6
      [] c = "7" -> 7
      [] c = "8" -> 8
      [] c = "9" -> 9

DigitChar(n) ==
    CASE n = 0 -> "0"
      [] n = 1 -> "1"
      [] n = 2 -> "2"
      [] n = 3 -> "3"
      [] n = 4 -> "4"
      [] n = 5 -> "5"
      [] n = 6 -> "6"
      [] n = 7 -> "7"
      [] n = 8 -> "8"
      [] n = 9 -> "9"

\* str.lower(), one character
LowerChar(c) ==
    CASE c = "A" -> "a"
      [] c = "B" -> "b"
      [] c = "C" -> "c"
      [] c = "D" -> "d"
      [] c = "E" -> "e"
      [] c = "F" -> "f"
      [] c = "G" -> "g"
      [] c = "H" -> "h"
      [] c = "I" -> "i"
      [] c = "J" -> "j"
      [] c = "K" -> "k"
      [] c = "L" -> "l"
      [] c = "M" -> "m"
      [] c = "N" -> "n"
      [] c = "O" -> "o"
      [] c = "P" -> "p"
      [] c = "Q" -> "q"
      [] c = "R" -> "r"
      [] c = "S" -> "s"
      [] c = "T" -> "t"
      [] c = "U" -> "u"
      [] c = "V" -> "v"
      [] c = "W" -> "w"
      [] c = "X" -> "x"
      [] c = "Y" -> "y"
      [] c = "Z" -> "z"
      [] OTHER -> c

LowerIdentity(chars) == chars
\* str.lower()
Lower(chars) == [i \in 1..Len(chars) |-> LowerChar(chars[i])]

\* str.replace(',', '')
RECURSIVE StripCommas(_)
StripCommas(chars) ==
    IF chars = <<>> THEN <<>>
    ELSE IF Head(chars) = "," THEN StripCommas(Tail(chars))
    ELSE <<Head(chars)>> \o StripCommas(Tail(chars))

\* str.isnumeric(): a non-empty string of numeric characters
isnumeric(chars) == chars # <<>> /\ \A i \in 1..Len(chars) : chars[i] \in Digits

----------------------------------------------------------------------------
(* Numbers and the cells of a DataFrame column *)

\* A cell is an int64 (kind "int", value m), a float64 (kind "float", value
\* m / 10^d, d minimal), or a Python str (kind "text": the characters s
\* repeated `times` times).
IntCell(m) == [kind |-> "int", m |-> m, d |-> 0, s |-> <<>>, times |-> 0]
FloatCell(m, d) == [kind |-> "float", m |-> m, d |-> d, s |-> <<>>, times |-> 0]
TextCell(chars) == [kind |-> "text", m |-> 0, d |-> 0, s |-> chars, times |-> 1]
NoCell == [kind |-> "none", m |-> 0, d |-> 0, s |-> <<>>, times |-> 0]

RECURSIVE Pow10(_)
Pow10(e) == IF e = 0 THEN 1 ELSE 10 * Pow10(e - 1)

RECURSIVE DigitsValue(_)
\* the number a string of digits writes
DigitsValue(chars) ==
    IF chars = <<>> THEN 0
    ELSE 10 * DigitsValue(SubSeq(chars, 1, Len(chars) - 1)) + DigitVal(chars[Len(chars)])

RECURSIVE Normalize(_, _)
Normalize(m, d) ==
    IF d > 0 /\ m % 10 = 0 THEN Normalize(m \div 10, d - 1) ELSE FloatCell(m, d)

\* pd.to_numeric of one string: an optional sign, digits, at most one point
ParseNumber(chars) ==
    LET neg == chars # <<>> /\ Head(chars) = "-"
        body == IF neg THEN Tail(chars) ELSE chars
        dots == {i \in 1..Len(body) : body[i] = "."}
        wellFormed == /\ Cardinality(dots) <= 1
                      /\ \A i \in 1..Len(body) : body[i] \in Digits \cup {"."}
                      /\ \E i \in 1..Len(body) : body[i] \in Digits
    IN  IF ~wellFormed THEN NoCell
        ELSE IF dots = {}
        THEN IntCell((IF neg THEN -1 ELSE 1) * DigitsValue(body))
        ELSE LET p == CHOOSE i \in dots : TRUE
                 whole == SubSeq(body, 1, p - 1)
                 frac == SubSeq(body, p + 1, Len(body))
             IN  Normalize((IF neg THEN -1 ELSE 1) * DigitsValue(whole \o frac), Len(frac))

RECURSIVE NatToChars(_)
NatToChars(n) ==
    IF n < 10 THEN <<DigitChar(n)>> ELSE NatToChars(n \div 10) \o <<DigitChar(n % 10)>>

RECURSIVE PadLeft(_, _)
PadLeft(chars, n) == IF Len(chars) >= n THEN chars ELSE PadLeft(<<"0">> \o chars, n)

\* str(x) of a cell
ToStr(c) ==
    LET a == IF c.m < 0 THEN -c.m ELSE c.m
        sign == IF c.m < 0 THEN <<"-">> ELSE <<>>
    IN  CASE c.kind = "int" -> TextCell(sign \o NatToChars(a))
          [] c.kind = "float" ->
                TextCell(sign \o NatToChars(a \div Pow10(c.d)) \o <<".">>
                         \o (IF c.d = 0 THEN <<"0">>
                             ELSE PadLeft(NatToChars(a % Pow10(c.d)), c.d)))
          [] OTHER -> c

\* np.multiply(x, 10 ** e) of one cell, e >= 0; on a str, `*` repeats it
TimesPow10(c, e) ==
    CASE c.kind = "int" -> IntCell(c.m * Pow10(e))
      [] c.kind = "float" ->
            IF e >= c.d THEN FloatCell(c.m * Pow10(e - c.d), 0) ELSE FloatCell(c.m, c.d - e)
      [] OTHER -> [c EXCEPT !.times = c.times * Pow10(e)]

----------------------------------------------------------------------------
(* Python dicts, subscripts and iteration *)

\* a dict is the sequence of its items in insertion order; d[k] = v
DictHas(items, k) == \E i \in 1..Len(items) : items[i].k = k
DictGet(items, k) == items[CHOOSE i \in 1..Len(items) : items[i].k = k].v
DictSet(items, k, v) ==
    IF DictHas(items, k)
    THEN [i \in 1..Len(items) |-> IF items[i].k = k THEN Item(k, v) ELSE items[i]]
    ELSE Append(items, Item(k, v))
DictKeys(items) == [i \in 1..Len(items) |-> items[i].k]

\* node[key] with a string key: KeyError on a dict without it, TypeError on
\* a list or a string
Subscript(node, key) ==
    IF node.t = "map" /\ DictHas(node.kids, key)
    THEN [ok |-> TRUE, val |-> DictGet(node.kids, key)]
    ELSE [ok |-> FALSE, val |-> NoValue]

\* `for x in node`: the elements of a list, the keys of a dict, the
\* characters of a string
Elements(node) ==
    CASE node.t = "seq" -> [i \in 1..Len(node.kids) |-> node.kids[i].v]
      [] node.t = "map" -> [i \in 1..Len(node.kids) |-> Str(node.kids[i].k)]
      [] node.t = "str" -> [i \in 1..Len(Chars(node.s)) |-> Str(Chars(node.s)[i])]
      [] OTHER -> <<>>

SeqToSet(seq) == {seq[i] : i \in 1..Len(seq)}

----------------------------------------------------------------------------
(* Response objects *)

NoResponse == [kind |-> "none"]

\* BEAResponse.__init__ plus the attributes the subclass adds
Response(kind, req, res, u, extra) ==
    [kind |-> kind, request |-> req, result |-> res, url |-> u, extra |-> extra]

\* SpecLocate makes no response
NoInput == [body |-> "none"]

\* the outcome of a constructor: ok = FALSE is an exception raised in it
Built(resp, json) == [ok |-> TRUE, response |-> resp, bea_json |-> json]
BuildFailed(json) == [ok |-> FALSE, response |-> NoResponse, bea_json |-> json]

RECURSIVE CollectDatasets(_, _, _)
\* the loop of DatasetListResponse.__init__
CollectDatasets(rows, i, acc) ==
    IF i > Len(rows) THEN [ok |-> TRUE, dict |-> acc]
    ELSE LET name == Subscript(rows[i], "DatasetName")
             desc == Subscript(rows[i], "DatasetDescription")
         IN  IF name.ok /\ desc.ok /\ name.val.t = "str"
             THEN CollectDatasets(rows, i + 1, DictSet(acc, name.val.s, desc.val))
             ELSE [ok |-> FALSE, dict |-> acc]

DatasetListResponse(req, res, u, json) ==
    LET rows == Subscript(res, "Dataset")
        got == CollectDatasets(Elements(rows.val), 1, <<>>)
    IN  IF rows.ok /\ got.ok
        THEN Built(Response("DatasetList", req, res, u, [datasets |-> got.dict]), json)
        ELSE BuildFailed(json)

RECURSIVE CollectParameters(_, _, _, _)
\* the loop of ParameterListResponse.__init__; p.pop('ParameterName') takes
\* the name out of the descriptor, which stays part of the result block
CollectParameters(rows, i, acc, left) ==
    IF i > Len(rows) THEN [ok |-> TRUE, dict |-> acc, rows |-> left]
    ELSE LET p == rows[i]
             name == Subscript(p, "ParameterName")
             rest == [p EXCEPT !.kids = RemoveAt(p.kids,
                          CHOOSE j \in 1..Len(p.kids) : p.kids[j].k = "ParameterName")]
         IN  IF name.ok /\ name.val.t = "str"
             THEN CollectParameters(rows, i + 1, DictSet(acc, name.val.s, rest),
                                    Append(left, rest))
             ELSE [ok |-> FALSE, dict |-> acc, rows |-> left]

ParameterListResponse(req, res, u, json) ==
    LET rows == Subscript(res, "Parameter")
        got == CollectParameters(Elements(rows.val), 1, <<>>, <<>>)
        at == CHOOSE j \in 1..Len(res.kids) : res.kids[j].k = "Parameter"
        after == IF rows.val.t = "seq"
                 THEN [res EXCEPT !.kids[at].v = Lst(got.rows)]
                 ELSE res
    IN  IF rows.ok /\ got.ok
        THEN Built(Response("ParameterList", req, after, u, [parameters |-> got.dict]), json)
        ELSE BuildFailed(json)

RECURSIVE CollectParamValues(_, _, _)
\* the loop of ParameterValuesResponse.__init__:
\* key, description = tuple(p.values())
CollectParamValues(rows, i, acc) ==
    IF i > Len(rows) THEN [ok |-> TRUE, dict |-> acc]
    ELSE LET p == rows[i] IN
         IF p.t = "map" /\ Len(p.kids) = 2 /\ p.kids[1].v.t = "str"
         THEN CollectParamValues(rows, i + 1, DictSet(acc, p.kids[1].v.s, p.kids[2].v))
         ELSE [ok |-> FALSE, dict |-> acc]

ParameterValuesResponse(req, res, u, json) ==
    LET rows == Subscript(res, "ParamValue")
        got == CollectParamValues(Elements(rows.val), 1, <<>>)
    IN  IF rows.ok /\ got.ok
        THEN Built(Response("ParameterValues", req, res, u, [parameters |-> got.dict]), json)
        ELSE BuildFailed(json)

----------------------------------------------------------------------------
(* DataResponse: the names of the series and period columns *)

NoIdentifier == [ok |-> FALSE, ids |-> <<>>]
Identifier(ids) == [ok |-> TRUE, ids |-> ids]

\* self.request['DATASETNAME'].lower(); KeyError without the parameter
DatasetOf(req) ==
    IF DictHas(req, "DATASETNAME") /\ DictGet(req, "DATASETNAME").t = "str"
    THEN [ok |-> TRUE, name |-> Lower(Chars(DictGet(req, "DATASETNAME").s))]
    ELSE [ok |-> FALSE, name |-> <<>>]

\* the property series_identifiers: a column name or a list of them, or the
\* ValueError of line 384
series_identifiers(req) ==
    LET ds == DatasetOf(req)
        dataset == ds.name
    IN  IF ~ds.ok THEN NoIdentifier
        ELSE IF dataset \in {Chars("nipa"), Chars("niunderlyingdetail"), Chars("fixedassets")}
        THEN Identifier(<<"SeriesCode">>)
        ELSE IF dataset \in {Chars("gdpbyindustry"), Chars("underlyinggdpbyindustry")}
        THEN Identifier(<<"Industry">>)
        ELSE IF dataset \in {Chars("ita"), Chars("iip"), Chars("intlservtrade")}
        THEN Identifier(<<"TimeSeriesId">>)
        ELSE IF dataset = Chars("mne")
        THEN Identifier(<<"SeriesID", "RowCode", "ColumnCode">>)
        ELSE IF dataset = Chars("inputoutput")
        THEN Identifier(<<"RowCode", "ColCode">>)
        ELSE IF dataset = Chars("regional")
        THEN Identifier(<<"GeoFips">>)
        ELSE NoIdentifier

\* the property period_identifier, or the ValueError of line 405
period_identifier(req) ==
    LET ds == DatasetOf(req)
        dataset == ds.name
    IN  IF ~ds.ok THEN NoIdentifier
        ELSE IF dataset \in {Chars("nipa"), Chars("niunderlyingdetail"), Chars("fixedassets"),
                             Chars("ita"), Chars("iip"), Chars("intlservtrade"),
                             Chars("regional")}
        THEN Identifier(<<"TimePeriod">>)
        ELSE IF dataset \in {Chars("mne"), Chars("underlyinggdpbyindustry"),
                             Chars("gdpbyindustry"), Chars("inputoutput")}
        THEN Identifier(<<"Year">>)
        ELSE NoIdentifier

----------------------------------------------------------------------------
(* DataResponse: string-encoded fields *)

\* the text some responses hold in place of the list of dimensions
EncodedDimensions ==
    "[{'Name': 'SeriesCode', 'DataType': 'string', 'IsValue': '0'}, {'Name': 'TimePeriod', 'DataType': 'string', 'IsValue': '0'}, {'Name': 'LineDescription', 'DataType': 'string', 'IsValue': '0'}, {'Name': 'DataValue', 'DataType': 'numeric', 'IsValue': '1'}]"

Dimension(name, dtype, isValue) ==
    Map(<<Item("Name", Str(name)), Item("DataType", Str(dtype)), Item("IsValue", Str(isValue))>>)

\* ast.literal_eval on the strings of the documents: the literal the text
\* writes, or the ValueError / SyntaxError of a text that is no literal
literal_eval(s) ==
    IF s = EncodedDimensions
    THEN [ok |-> TRUE,
          val |-> Lst(<<Dimension("SeriesCode", "string", "0"),
                        Dimension("TimePeriod", "string", "0"),
                        Dimension("LineDescription", "string", "0"),
                        Dimension("DataValue", "numeric", "1")>>)]
    ELSE [ok |-> FALSE, val |-> NoValue]

\* _safe_access_json_field: err is "" or the exception raised
\* (KeyError of the search, ValueError of the decoding)
safe_access_json_field(json, key, pop) ==
    LET r == getitem_any_level(json, key, pop)
        decoded == literal_eval(r.val.s)
    IN  IF ~r.ok THEN [err |-> "KeyError", val |-> NoValue, bea_json |-> r.dct]
        ELSE IF r.val.t # "str" THEN [err |-> "", val |-> r.val, bea_json |-> r.dct]
        ELSE IF decoded.ok THEN [err |-> "", val |-> decoded.val, bea_json |-> r.dct]
        ELSE [err |-> "ValueError", val |-> NoValue, bea_json |-> r.dct]

----------------------------------------------------------------------------
(* DataResponse: dimensions and notes *)

RECURSIVE CollectDimensions(_, _, _)
\* lines 213-217; int(dim['IsValue']) needs the text of an integer
CollectDimensions(dims, i, acc) ==
    IF i > Len(dims) THEN [ok |-> TRUE, dict |-> acc]
    ELSE LET dtype == Subscript(dims[i], "DataType")
             isv == Subscript(dims[i], "IsValue")
             name == Subscript(dims[i], "Name")
             n == ParseNumber(Chars(isv.val.s))
         IN  IF /\ dtype.ok /\ isv.ok /\ name.ok
                /\ isv.val.t = "str" /\ n.kind = "int" /\ name.val.t = "str"
             THEN CollectDimensions(dims, i + 1,
                      DictSet(acc, name.val.s, [dtype |-> dtype.val, is_value |-> n.m # 0]))
             ELSE [ok |-> FALSE, dict |-> acc]

RECURSIVE CollectNotes(_, _, _)
\* lines 224-225 inside the try of line 222: a KeyError ends the loop and is
\* swallowed, the notes read so far stay; any other exception is raised
CollectNotes(notes, i, acc) ==
    IF i > Len(notes) THEN [err |-> "", dict |-> acc]
    ELSE LET text == Subscript(notes[i], "NoteText")
             ref == Subscript(notes[i], "NoteRef")
         IN  IF notes[i].t # "map" THEN [err |-> "TypeError", dict |-> acc]
             ELSE IF ~text.ok \/ ~ref.ok THEN [err |-> "KeyError", dict |-> acc]
             ELSE IF ref.val.t # "str" THEN [err |-> "TypeError", dict |-> acc]
             ELSE CollectNotes(notes, i + 1, DictSet(acc, ref.val.s, text.val))

----------------------------------------------------------------------------
(* DataResponse: the DataFrames *)

\* A DataFrame: the column names in order, the index label of every row, and
\* every row as a function from column name to cell.
Frame(columns, index, rows) == [columns |-> columns, index |-> index, rows |-> rows]
RowIds(df) == 1..Len(df.rows)
ColumnOf(df, c) == [i \in RowIds(df) |-> df.rows[i][c]]
HasColumns(df, cols) == SeqToSet(cols) \subseteq SeqToSet(df.columns)

\* pd.DataFrame(data) for a list of flat dicts of strings that all have the
\* same keys: one column per key, one row per dict
DataFrame(data) ==
    LET rows == Elements(data)
        cols == IF rows = <<>> THEN <<>> ELSE DictKeys(rows[1].kids)
    IN  Frame(cols,
              [i \in 1..Len(rows) |-> <<>>],
              [i \in 1..Len(rows) |->
                  [c \in SeqToSet(cols) |-> TextCell(Chars(DictGet(rows[i].kids, c).s))]])

\* df.loc[:, cols]
Select(df, cols) ==
    Frame(cols, df.index, [i \in RowIds(df) |-> [c \in SeqToSet(cols) |-> df.rows[i][c]]])

\* the list without the names in `drop`
Without(cols, drop) == SelectSeq(cols, LAMBDA c : c \notin drop)

RECURSIVE CatIds(_, _, _, _)
\* lines 353-355: the first identifier column, then str.cat(..., sep='_')
CatIds(row, ids, k, acc) ==
    IF k > Len(ids) THEN acc
    ELSE CatIds(row, ids, k + 1, IF k = 1 THEN row[ids[k]].s ELSE acc \o <<"_">> \o row[ids[k]].s)

\* _set_unique_index
set_unique_index(df, req) ==
    LET ids == series_identifiers(req) IN
    IF ids.ok /\ HasColumns(df, ids.ids)
    THEN [ok |-> TRUE,
          df |-> Frame(df.columns, [i \in RowIds(df) |-> CatIds(df.rows[i], ids.ids, 1, <<>>)],
                       df.rows)]
    ELSE [ok |-> FALSE, df |-> df]

\* lines 274-283: the DataValue column without commas, then pd.to_numeric of
\* the whole column or, when that raises, of its isnumeric() entries only
DataValueColumn(cells) ==
    LET stripped == [i \in 1..Len(cells) |-> TextCell(StripCommas(cells[i].s))]
        parsed == [i \in 1..Len(cells) |-> ParseNumber(stripped[i].s)]
        allNumbers == \A i \in 1..Len(cells) : parsed[i].kind # "none"
        anyFloat == \E i \in 1..Len(cells) : parsed[i].kind = "float"
    IN  IF allNumbers
        THEN [data_dtype |-> "float64",
              cells |-> [i \in 1..Len(cells) |->
                            IF anyFloat /\ parsed[i].kind = "int"
                            THEN FloatCell(parsed[i].m, 0) ELSE parsed[i]]]
        ELSE [data_dtype |-> "object",
              cells |-> [i \in 1..Len(cells) |->
                            IF isnumeric(stripped[i].s)
                            THEN IntCell(DigitsValue(stripped[i].s)) ELSE stripped[i]]]

\* dict(zip(a, b)): as many pairs as the shorter of the two has
Zip(a, b) ==
    LET n == IF Len(a) < Len(b) THEN Len(a) ELSE Len(b) IN
    [i \in 1..n |-> Item(a[i], b[i])]

\* astype of one cell
Cast(cell, dtype) ==
    CASE dtype = "str" -> ToStr(cell)
      [] dtype = "float64" /\ cell.kind = "int" -> FloatCell(cell.m, 0)
      [] OTHER -> cell

\* df.astype(dtypes): the columns the dict names, each to its type
AsType(df, dtypes) ==
    Frame(df.columns, df.index,
          [i \in RowIds(df) |->
              [c \in SeqToSet(df.columns) |->
                  IF DictHas(dtypes, c) THEN Cast(df.rows[i][c], DictGet(dtypes, c))
                  ELSE df.rows[i][c]]])

\* the payload of a response: a Series (shape "vector"), a wide DataFrame
\* (shape "matrix") or none
NoPayload ==
    [shape |-> "none", name |-> <<>>, index |-> <<>>, columns |-> <<>>, values |-> <<>>,
     dtype |-> "none"]

\* the dtype of a column that holds these cells
ColumnDtype(cells) ==
    IF \A i \in 1..Len(cells) : cells[i].kind = "int" THEN "int64"
    ELSE IF \A i \in 1..Len(cells) : cells[i].kind = "float" THEN "float64"
    ELSE "object"

RECURSIVE Distinct(_)
\* the values of a sequence, each once, in order of first appearance
Distinct(seq) ==
    IF seq = <<>> THEN <<>>
    ELSE LET init == Distinct(SubSeq(seq, 1, Len(seq) - 1)) IN
         IF seq[Len(seq)] \in SeqToSet(init) THEN init ELSE Append(init, seq[Len(seq)])

RECURSIVE SortPeriods(_)
\* annual period labels in chronological order
SortPeriods(set) ==
    IF set = {} THEN <<>>
    ELSE LET first == CHOOSE p \in set : \A q \in set : DigitsValue(p) <= DigitsValue(q)
         IN  <<first>> \o SortPeriods(set \ {first})

\* DataFormatter(df).format() of beapy.formats: the long table as a wide one,
\* the periods in chronological order down the rows, one column per series
DataFormatter_format(df, p_id) ==
    [shape |-> "matrix",
     name |-> <<>>,
     index |-> SortPeriods({df.rows[i][p_id].s : i \in RowIds(df)}),
     columns |-> Distinct(df.index),
     values |-> [i \in RowIds(df) |->
                    [series |-> df.index[i], period |-> df.rows[i][p_id].s,
                     value |-> df.rows[i]["data"]]],
     dtype |-> ColumnDtype(ColumnOf(df, "data"))]

\* lines 304-306: df.drop(columns=p_id).squeeze().rename(p); squeeze() of a
\* frame of one row and one column is the bare value, which has no rename()
Squeezed(df, p_id) ==
    IF Len(df.rows) = 1
    THEN [ok |-> FALSE, data |-> NoPayload]
    ELSE [ok |-> TRUE,
          data |-> [shape |-> "vector",
                    name |-> df.rows[1][p_id].s,
                    index |-> df.index,
                    columns |-> <<>>,
                    values |-> ColumnOf(df, "data"),
                    dtype |-> ColumnDtype(ColumnOf(df, "data"))]]

\* _construct_data on df_md.loc[:, data_cols]
construct_data(df, p_id) ==
    LET value == DataValueColumn(ColumnOf(df, "DataValue"))
        hasUnit == "UNIT_MULT" \in SeqToSet(df.columns)
        expos == [i \in RowIds(df) |-> ParseNumber(df.rows[i]["UNIT_MULT"].s)]
        \* pd.to_numeric(df.UNIT_MULT) and np.power(10, expos) raise on a text
        \* that is no number and on a negative integer
        exposOk == \A i \in RowIds(df) : expos[i].kind = "int" /\ expos[i].m >= 0
        data == [i \in RowIds(df) |->
                    IF hasUnit THEN TimesPow10(value.cells[i], expos[i].m) ELSE value.cells[i]]
        cols == Without(Append(df.columns, "data"), {"DataValue", "UNIT_MULT"})
        computed == Frame(cols, df.index,
                          [i \in RowIds(df) |->
                              [c \in SeqToSet(cols) |->
                                  IF c = "data" THEN data[i] ELSE df.rows[i][c]]])
        typed == AsType(computed, Zip(cols, <<"str", "str", value.data_dtype>>))
        periods == {typed.rows[i][p_id].s : i \in RowIds(typed)}
    IN  IF hasUnit /\ ~exposOk THEN [ok |-> FALSE, data |-> NoPayload]
        ELSE IF Cardinality(periods) = 1 THEN Squeezed(typed, p_id)
        ELSE [ok |-> TRUE, data |-> DataFormatter_format(typed, p_id)]

RECURSIVE DropDuplicates(_, _, _)
\* md.drop_duplicates(): a row equal in every column to an earlier one goes
DropDuplicates(df, i, acc) ==
    IF i > Len(df.rows) THEN Frame(df.columns, [j \in 1..Len(acc) |-> df.index[acc[j]]],
                                   [j \in 1..Len(acc) |-> df.rows[acc[j]]])
    ELSE IF \E j \in 1..Len(acc) : df.rows[acc[j]] = df.rows[i]
    THEN DropDuplicates(df, i + 1, acc)
    ELSE DropDuplicates(df, i + 1, Append(acc, i))

\* _construct_metadata; a footnote reference without a footnote maps to NaN
construct_metadata(md, notes) ==
    LET cols == Append(Without(md.columns, {"NoteRef"}), "Notes")
        NoteOf(ref) == IF \E i \in 1..Len(notes) : Chars(notes[i].k) = ref.s
                       THEN LET text == notes[CHOOSE i \in 1..Len(notes) :
                                                  Chars(notes[i].k) = ref.s].v
                            IN  TextCell(Chars(text.s))
                       ELSE NoCell
        noted == Frame(cols, md.index,
                       [i \in RowIds(md) |->
                           [c \in SeqToSet(cols) |->
                               IF c = "Notes" THEN NoteOf(md.rows[i]["NoteRef"])
                               ELSE md.rows[i][c]]])
    IN  IF notes # <<>> /\ "NoteRef" \in SeqToSet(md.columns)
        THEN DropDuplicates(noted, 1, <<>>)
        ELSE DropDuplicates(md, 1, <<>>)

\* lines 247-249: the columns of the data frame
DataColumns(p_id, dimensions) ==
    IF DictHas(dimensions, "UNIT_MULT")
    THEN <<p_id, "DataValue", "UNIT_MULT">>
    ELSE <<p_id, "DataValue">>

\* _construct_data_and_metadata
construct_data_and_metadata(data, req, dimensions, notes) ==
    LET indexed == set_unique_index(DataFrame(data), req)
        df_md == indexed.df
        period == period_identifier(req)
        p_id == period.ids[1]
        data_cols == DataColumns(p_id, dimensions)
        meta_cols == Without(df_md.columns, SeqToSet(data_cols))
        df == construct_data(Select(df_md, data_cols), p_id)
        md == construct_metadata(Select(df_md, meta_cols), notes)
    IN  IF /\ data.t = "seq"
           /\ indexed.ok
           /\ period.ok
           /\ HasColumns(df_md, data_cols)
           /\ df.ok
        THEN [ok |-> TRUE, data |-> df.data, metadata |-> md]
        ELSE [ok |-> FALSE, data |-> NoPayload, metadata |-> Frame(<<>>, <<>>, <<>>)]

\* DataResponse.__init__
DataResponse(req, res, u, json) ==
    LET dims == safe_access_json_field(json, "Dimensions", FALSE)
        dimensions == CollectDimensions(Elements(dims.val), 1, <<>>)
        note_list == safe_access_json_field(json, "Notes", TRUE)
        notes == IF note_list.err = "" THEN CollectNotes(Elements(note_list.val), 1, <<>>)
                 ELSE [err |-> note_list.err, dict |-> <<>>]
        data_list == safe_access_json_field(note_list.bea_json, "Data", TRUE)
        tables == construct_data_and_metadata(data_list.val, req, dimensions.dict, notes.dict)
        \* self.result is the very object inside self.bea_json, so what the two
        \* pops remove is gone from it as well
        remnant == getitem_any_level(data_list.bea_json, "Results", FALSE).val
    IN  IF /\ dims.err = "" /\ dimensions.ok
           /\ notes.err \in {"", "KeyError"}
           /\ data_list.err = ""
           /\ tables.ok
        THEN Built(Response("Data", req, remnant, u,
                            [dimensions |-> dimensions.dict, notes |-> notes.dict,
                             data |-> tables.data, metadata |-> tables.metadata]),
                   data_list.bea_json)
        ELSE BuildFailed(json)

----------------------------------------------------------------------------
(* BEAAPIError and BEAResponse.from_response *)

NoException == [type |-> "none", msg |-> <<>>]
Exception(type, msg) == [type |-> type, msg |-> msg]

\* what an f-string shows of a value
TextOf(node) == IF node.t = "str" THEN node.s ELSE "<object>"

\* BEAAPIError.__init__: the message, or the KeyError of one of the two
\* searches
BEAAPIError(err_json) ==
    LET err_code == getitem_any_level(err_json, "APIErrorCode", FALSE)
        err_desc == getitem_any_level(err_json, "APIErrorDescription", FALSE)
    IN  IF err_code.ok /\ err_desc.ok
        THEN Exception("BEAAPIError",
                 <<"API Code: ", TextOf(err_code.val), ". Description: ", TextOf(err_desc.val)>>)
        ELSE Exception("KeyError", <<>>)

\* lines 134-139: the exception that leaves the try statement, if any.  The
\* KeyError of the search and the KeyError of BEAAPIError(err) both end in
\* `except KeyError: pass`
ErrorCheck(json) ==
    LET err == getitem_any_level(json, "Error", FALSE)
        raised == BEAAPIError(err.val)
    IN  IF err.ok /\ raised.type # "KeyError" THEN raised ELSE NoException

RECURSIVE CollectRequest(_, _, _)
\* lines 152-154
CollectRequest(params, i, acc) ==
    IF i > Len(params) THEN [err |-> "", dict |-> acc]
    ELSE LET value == Subscript(params[i], "ParameterValue")
             name == Subscript(params[i], "ParameterName")
         IN  IF params[i].t # "map" THEN [err |-> "TypeError", dict |-> acc]
             ELSE IF ~value.ok \/ ~name.ok THEN [err |-> "KeyError", dict |-> acc]
             ELSE IF name.val.t # "str" THEN [err |-> "TypeError", dict |-> acc]
             ELSE CollectRequest(params, i + 1, DictSet(acc, name.val.s, value.val))

\* the message of the KeyError of lines 77 and 91
NotFound(json, key) ==
    IF has_keys(json)
    THEN Exception("KeyError", <<"key ", key, " was not found at any level of provided dict">>)
    ELSE Exception("KeyError", <<key>>)

\* the module-level dict response_classes
response_classes ==
    <<Item("GETDATASETLIST", "DatasetListResponse"),
      Item("GETPARAMETERLIST", "ParameterListResponse"),
      Item("GETPARAMETERVALUES", "ParameterValuesResponse"),
      Item("GETPARAMETERVALUESFILTERED", "ParameterValuesResponse"),
      Item("GETDATA", "DataResponse")>>

\* lines 162-164: whatever the constructor raised becomes this ValueError
CouldNotCreateBare(u) == Exception("ValueError", <<"could not create BEAResponse.">>)
CouldNotCreate(u) == Exception("ValueError", <<"could not create BEAResponse. url is \n", u>>)

\* line 128-132: response.url and response.json()
DecodeJson ==
    /\ pc = "json"
    /\ IF document.t = "none"
       THEN /\ pc' = "raised"
            /\ exc' = Exception("NotImplementedError", <<"cannot create Response without json">>)
            /\ UNCHANGED bea_json
       ELSE /\ pc' = "check_error"
            /\ bea_json' = document
            /\ UNCHANGED exc
    /\ UNCHANGED <<tree, calls, input, document, url, request, result, klass, response>>

\* lines 134-139
CheckError ==
    /\ pc = "check_error"
    /\ LET raised == ErrorCheck(bea_json) IN
       IF raised.type # "none"
       THEN pc' = "raised" /\ exc' = raised
       ELSE pc' = "request_parameters" /\ UNCHANGED exc
    /\ UNCHANGED <<tree, calls, bea_json, input, document, url, request, result, klass, response>>

\* lines 151-154
ReadRequestParameters ==
    /\ pc = "request_parameters"
    /\ LET request_parameters == getitem_any_level(bea_json, "RequestParam", TRUE)
           got == CollectRequest(Elements(request_parameters.val), 1, <<>>)
       IN  IF ~request_parameters.ok
           THEN /\ pc' = "raised"
                /\ exc' = NotFound(bea_json, "RequestParam")
                /\ UNCHANGED <<bea_json, request>>
           ELSE /\ bea_json' = request_parameters.dct
                /\ IF got.err # ""
                   THEN pc' = "raised" /\ exc' = Exception(got.err, <<>>) /\ UNCHANGED request
                   ELSE pc' = "results" /\ request' = got.dict /\ UNCHANGED exc
    /\ UNCHANGED <<tree, calls, input, document, url, result, klass, response>>

\* line 157
LocateResults ==
    /\ pc = "results"
    /\ LET found == getitem_any_level(bea_json, "Results", FALSE) IN
       IF found.ok
       THEN pc' = "classify" /\ result' = found.val /\ UNCHANGED exc
       ELSE pc' = "raised" /\ exc' = NotFound(bea_json, "Results") /\ UNCHANGED result
    /\ UNCHANGED <<tree, calls, bea_json, input, document, url, request, klass, response>>

\* line 159
Classify ==
    /\ pc = "classify"
    /\ IF ~DictHas(request, "METHOD")
       THEN pc' = "raised" /\ exc' = Exception("KeyError", <<"METHOD">>) /\ UNCHANGED klass
       ELSE LET method == DictGet(request, "METHOD") IN
            IF method.t = "str" /\ DictHas(response_classes, method.s)
            THEN pc' = "build" /\ klass' = DictGet(response_classes, method.s) /\ UNCHANGED exc
            ELSE pc' = "raised" /\ exc' = Exception("KeyError", <<TextOf(method)>>)
                 /\ UNCHANGED klass
    /\ UNCHANGED <<tree, calls, bea_json, input, document, url, request, result, response>>

\* lines 160-164 around one constructor
Construct(built) ==
    /\ IF built.ok
       THEN /\ pc' = "returned"
            /\ response' = built.response
            /\ bea_json' = built.bea_json
            /\ UNCHANGED exc
       ELSE /\ pc' = "raised"
            /\ exc' = CouldNotCreate(url)
            /\ UNCHANGED <<response, bea_json>>
    /\ UNCHANGED <<tree, calls, input, document, url, request, result, klass>>

BuildDatasetList ==
    /\ pc = "build" /\ klass = "DatasetListResponse"
    /\ Construct(DatasetListResponse(request, result, url, bea_json))

BuildParameterList ==
    /\ pc = "build" /\ klass = "ParameterListResponse"
    /\ Construct(ParameterListResponse(request, result, url, bea_json))

BuildParameterValues ==
    /\ pc = "build" /\ klass = "ParameterValuesResponse"
    /\ Construct(ParameterValuesResponse(request, result, url, bea_json))

BuildData ==
    /\ pc = "build" /\ klass = "DataResponse"
    /\ Construct(DataResponse(request, result, url, bea_json))

Next ==
    \/ DecodeJson
    \/ CheckError
    \/ ReadRequestParameters
    \/ LocateResults
    \/ Classify
    \/ BuildDatasetList
    \/ BuildParameterList
    \/ BuildParameterValues
    \/ BuildData

----------------------------------------------------------------------------
(* The responses from_response is run on *)

MaxRows == 2

\* section 4.7 of the specification: the series and period columns of
\* every dataset, under the spellings of its name the documents use
IdentifierRules(name) ==
    CASE name \in {"nipa", "NIPA", "niunderlyingdetail", "NIUnderlyingDetail",
                   "fixedassets", "FixedAssets"}
            -> [known |-> TRUE, ids |-> <<"SeriesCode">>, period |-> "TimePeriod"]
      [] name \in {"gdpbyindustry", "GDPbyIndustry",
                   "underlyinggdpbyindustry", "UnderlyingGDPbyIndustry"}
            -> [known |-> TRUE, ids |-> <<"Industry">>, period |-> "Year"]
      [] name \in {"ita", "ITA", "iip", "IIP", "intlservtrade", "IntlServTrade"}
            -> [known |-> TRUE, ids |-> <<"TimeSeriesId">>, period |-> "TimePeriod"]
      [] name \in {"mne", "MNE"}
            -> [known |-> TRUE, ids |-> <<"SeriesID", "RowCode", "ColumnCode">>,
                period |-> "Year"]
      [] name \in {"inputoutput", "InputOutput"}
            -> [known |-> TRUE, ids |-> <<"RowCode", "ColCode">>, period |-> "Year"]
      [] name \in {"regional", "Regional"}
            -> [known |-> TRUE, ids |-> <<"GeoFips">>, period |-> "TimePeriod"]
      [] OTHER -> [known |-> FALSE, ids |-> <<"SeriesCode">>, period |-> "TimePeriod"]

LowerCaseNames ==
    {"nipa", "niunderlyingdetail", "fixedassets", "gdpbyindustry",
     "underlyinggdpbyindustry", "ita", "iip", "intlservtrade", "mne", "inputoutput",
     "regional"}
MixedCaseNames ==
    {"NIPA", "NIUnderlyingDetail", "FixedAssets", "GDPbyIndustry",
     "UnderlyingGDPbyIndustry", "ITA", "IIP", "IntlServTrade", "MNE", "InputOutput",
     "Regional"}
UnknownNames == {"Census", "nipa2"}
DatasetNames == LowerCaseNames \cup MixedCaseNames \cup UnknownNames

Methods ==
    {"GETDATASETLIST", "GETPARAMETERLIST", "GETPARAMETERVALUES",
     "GETPARAMETERVALUESFILTERED", "GETDATA", "GetData"}
Absent == "<absent>"

Urls == {"https://apps.bea.gov/api/data?method=x"}

Periods == {"2019", "2020"}
RawValues == {"5", "1,234", "12.5", "-3", "(D)"}
Exponents == {"0", "3"}

\* the series of the i-th row of a generated list
SeriesNames == <<"A", "B", "C", "D">>
SeriesAt(i) == SeriesNames[((i - 1) % Len(SeriesNames)) + 1]

\* the lists of one to n rows, each with a period and a raw value of its
\* own, the i-th row of the i-th series
RowLists(n) ==
    UNION {{[i \in 1..k |-> [sv |-> SeriesAt(i), period |-> l[i][1], raw |-> l[i][2]]] :
               l \in [1..k -> Periods \X RawValues]} : k \in 1..n}

OnePeriodRows == <<[sv |-> "A", period |-> "2019", raw |-> "5"],
                   [sv |-> "B", period |-> "2019", raw |-> "1,234"]>>
TwoPeriodRows == <<[sv |-> "A", period |-> "2019", raw |-> "5"],
                   [sv |-> "A", period |-> "2020", raw |-> "1,234"]>>

\* the value a row carries in an identifier column: the series in the
\* first, a fixed code in the others
IdValue(ids, k, sv) ==
    IF k = 1 THEN sv ELSE IF k = 2 THEN "10" ELSE "Z"

\* one observation row of the dataset
ObservationRow(o, r) ==
    LET rule == IdentifierRules(o.dataset) IN
    Map([k \in 1..Len(rule.ids) |-> Item(rule.ids[k], Str(IdValue(rule.ids, k, r.sv)))]
        \o <<Item("LineDescription", Str("line")),
             Item(rule.period, Str(r.period)),
             Item("DataValue", Str(r.raw))>>
        \o (IF o.unit = "none" THEN <<>> ELSE <<Item("UNIT_MULT", Str(o.unit))>>)
        \o (IF o.notes = "refs" THEN <<Item("NoteRef", Str("T1"))>> ELSE <<>>))

\* the Dimensions block: one entry per column of the rows, with or without
\* UNIT_MULT as the option says, or a string in place of the list
DimensionsOf(o) ==
    LET rule == IdentifierRules(o.dataset) IN
    CASE o.dims = "encoded" -> Str(EncodedDimensions)
      [] o.dims = "malformed" -> Str("Dimensions unavailable")
      [] OTHER ->
          Lst([k \in 1..Len(rule.ids) |-> Dimension(rule.ids[k], "string", "0")]
              \o <<Dimension("LineDescription", "string", "0"),
                   Dimension(rule.period, "string", "0"),
                   Dimension("DataValue", "numeric", "1")>>
              \o (IF o.declUnit THEN <<Dimension("UNIT_MULT", "numeric", "0")>> ELSE <<>>)
              \o (IF o.notes = "refs" THEN <<Dimension("NoteRef", "string", "0")>> ELSE <<>>))

DataOf(o) == Lst([i \in 1..Len(o.rows) |-> ObservationRow(o, o.rows[i])])

NotesOf(o) ==
    Lst(<<Map(<<Item("NoteRef", Str("T1")), Item("NoteText", Str("See notes"))>>)>>)

FullError ==
    Map(<<Item("APIErrorCode", Str("200")), Item("APIErrorDescription", Str("bad request"))>>)

\* the content of the Results block
ResultItems(o) ==
    CASE o.body = "datasets" ->
            <<Item("Dataset", Lst(<<Map(<<Item("DatasetName", Str("NIPA")),
                                          Item("DatasetDescription", Str("Standard NIPA tables"))>>)>>))>>
      [] o.body = "paramlist" ->
            <<Item("Parameter", Lst(<<Map(<<Item("ParameterName", Str("Frequency")),
                                            Item("ParameterDataType", Str("string"))>>)>>))>>
      [] o.body = "paramvalues" ->
            <<Item("ParamValue", Lst(<<Map(<<Item("Key", Str("A")),
                                             Item("Desc", Str("Annual"))>>)>>))>>
      [] OTHER ->
            (IF o.dims = "absent" THEN <<>> ELSE <<Item("Dimensions", DimensionsOf(o))>>)
            \o (IF o.shape = "flattened" THEN <<>> ELSE <<Item("Data", DataOf(o))>>)
            \o (IF o.notes = "none" THEN <<>> ELSE <<Item("Notes", NotesOf(o))>>)

Parameter(name, value) ==
    Map(<<Item("ParameterName", Str(name)), Item("ParameterValue", Str(value))>>)

RequestOf(o) ==
    IF o.params = "absent"
    THEN Map(<<>>)
    ELSE Map(<<Item("RequestParam",
                 Lst((IF o.method = Absent THEN <<>> ELSE <<Parameter("METHOD", o.method)>>)
                     \o (IF o.dataset = Absent THEN <<>>
                         ELSE <<Parameter("DATASETNAME", o.dataset)>>)
                     \o <<Parameter("RESULTFORMAT", "JSON")>>))>>)

\* where the document holds an Error block, if anywhere
ErrorInResults(o) ==
    IF o.err = "results" THEN <<Item("Error", FullError)>> ELSE <<>>
ErrorBesideResults(o) ==
    CASE o.err = "top" -> <<Item("Error", FullError)>>
      [] o.err = "wrapped" -> <<Item("Detail", Lst(<<Map(<<Item("Error", FullError)>>)>>))>>
      [] o.err = "second" ->
            <<Item("Detail", Lst(<<Map(<<Item("Note", Str("x"))>>),
                                   Map(<<Item("Error", FullError)>>)>>))>>
      [] o.err = "nodesc" -> <<Item("Error", Map(<<Item("APIErrorCode", Str("200"))>>))>>
      [] o.err = "text" -> <<Item("Error", Str("bad request"))>>
      [] OTHER -> <<>>

\* the document of a response, in one of the shapes the API answers with;
\* none when the response has no json()
Document(o) ==
    LET block == Map(ResultItems(o) \o ErrorInResults(o)) IN
    IF o.body = "nojson" THEN NoValue ELSE
    Map(<<Item("BEAAPI",
           Map(<<Item("Request", RequestOf(o))>>
               \o (CASE o.shape = "absent" -> <<>>
                     [] o.shape = "wrapped" -> <<Item("Results", Lst(<<block>>))>>
                     [] o.shape = "flattened" ->
                            <<Item("Results", block), Item("Data", DataOf(o))>>
                     [] OTHER -> <<Item("Results", block)>>)
               \o ErrorBesideResults(o)))>>)

Options(err, params, method, dataset, body, shape, dims, declUnit, unit, notes, rows) ==
    [err |-> err, params |-> params, method |-> method, dataset |-> dataset,
     body |-> body, shape |-> shape, dims |-> dims, declUnit |-> declUnit,
     unit |-> unit, notes |-> notes, rows |-> rows]

ErrorPlaces == {"none", "top", "results", "wrapped", "second", "nodesc", "text"}

\* error blocks, request parameters, methods and result blocks of every kind
DispatchInputs ==
    {Options(e, p, m, "NIPA", b, s, "list", FALSE, "none", "none", OnePeriodRows) :
        <<e, p, m, b, s>> \in ErrorPlaces \X {"list", "absent"} \X (Methods \cup {Absent})
                              \X {"datasets", "paramlist", "paramvalues", "data"}
                              \X {"nested", "absent"}}

\* data responses of every dataset, in every shape
DatasetInputs ==
    {Options("none", "list", "GETDATA", n, "data", s, d, FALSE, "none", "none", r) :
        <<n, s, d, r>> \in (DatasetNames \cup {Absent}) \X {"nested", "flattened", "wrapped"}
                           \X {"list", "encoded", "malformed", "absent"}
                           \X {OnePeriodRows, TwoPeriodRows}}

\* data responses with every list of observation rows, with and without the
\* exponent in the rows and in the Dimensions
ValueInputs ==
    {Options("none", "list", "GETDATA", "NIPA", "data", "nested", "list", d, u, "none", r) :
        <<d, u, r>> \in BOOLEAN \X ({"none"} \cup Exponents) \X RowLists(MaxRows)}

\* data responses with footnotes
NoteInputs ==
    {Options("none", "list", "GETDATA", n, "data", "nested", "list", FALSE, "none", f, r) :
        <<n, f, r>> \in {"NIPA", "MNE"} \X {"refs", "norefs"} \X {OnePeriodRows, TwoPeriodRows}}

\* a response without json()
NoJson ==
    Options("none", "absent", Absent, Absent, "nojson", "absent", "absent", FALSE, "none", "none", <<>>)

Inputs == DispatchInputs \cup DatasetInputs \cup ValueInputs \cup NoteInputs \cup {NoJson}

----------------------------------------------------------------------------
(* Spec: one call of BEAResponse.from_response *)

Init ==
    /\ input \in Inputs
    /\ document = Document(input)
    /\ url \in Urls
    /\ pc = "json"
    /\ bea_json = NoValue
    /\ request = <<>>
    /\ result = NoValue
    /\ klass = ""
    /\ exc = NoException
    /\ response = NoResponse
    /\ tree = NoValue
    /\ calls = <<>>

Spec == Init /\ [][Next]_vars

----------------------------------------------------------------------------
(* The trees the locator is run on *)

MaxDepth == 3

V1 == Str("v")
V2 == Str("w")
SearchKey == "k"
Keys == {"k", "a"}
Siblings == {V2, Map(<<Item("k", V2)>>)}

\* one more level around t: a list holding t (alone, first or second), or a
\* dict holding t (alone, before or after a sibling, under the searched key
\* or under the other one)
Wraps(t) ==
    {Lst(<<t>>), Lst(<<t, V2>>)}
    \cup {Lst(<<s, t>>) : s \in Siblings}
    \cup {Map(<<Item(k, t)>>) : k \in Keys}
    \cup {Map(<<Item("k", t), Item("a", V2)>>)}
    \cup {Map(<<Item("a", s), Item("k", t)>>) : s \in Siblings}
    \cup {Map(<<Item("a", t), Item("k", V2)>>), Map(<<Item("k", V2), Item("a", t)>>)}

RECURSIVE TreesUpTo(_)
TreesUpTo(d) ==
    IF d = 0
    THEN {V1}
    ELSE LET P == TreesUpTo(d - 1) IN P \cup UNION {Wraps(t) : t \in P}

----------------------------------------------------------------------------
(* What a tree holds, stated without the search *)

RECURSIVE Occurrences(_, _)
\* the number of dict items named key anywhere in the tree
Occurrences(n, key) ==
    LET RECURSIVE Sum(_)
        Sum(i) == IF i > Len(n.kids) THEN 0
                  ELSE (IF n.t = "map" /\ n.kids[i].k = key THEN 1 ELSE 0)
                       + Occurrences(n.kids[i].v, key) + Sum(i + 1)
    IN Sum(1)

RECURSIVE ValuesUnder(_, _)
\* the values stored under key anywhere in the tree
ValuesUnder(n, key) ==
    {n.kids[i].v : i \in {j \in 1..Len(n.kids) : n.t = "map" /\ n.kids[j].k = key}}
    \cup UNION {ValuesUnder(n.kids[i].v, key) : i \in 1..Len(n.kids)}

RECURSIVE ReachableThroughWrappers(_, _)
\* key is a key of a dict all of whose ancestors are dicts or one-element lists
ReachableThroughWrappers(n, key) ==
    \/ n.t = "map" /\ \E i \in 1..Len(n.kids) : n.kids[i].k = key
    \/ n.t = "map" /\ \E i \in 1..Len(n.kids) : ReachableThroughWrappers(n.kids[i].v, key)
    \/ n.t = "seq" /\ Len(n.kids) = 1 /\ ReachableThroughWrappers(n.kids[1].v, key)

OccursAnywhere(n, key) == Occurrences(n, key) > 0

----------------------------------------------------------------------------
(* SpecLocate: getitem_any_level called twice on one tree *)

Call(pop) ==
    LET r == getitem_any_level(tree, SearchKey, pop) IN
    /\ tree' = r.dct
    /\ calls' = Append(calls, [pop |-> pop, ok |-> r.ok, val |-> r.val, before |-> tree])

InitLocate ==
    /\ tree \in TreesUpTo(MaxDepth)
    /\ calls = <<>>
    /\ pc = "first"
    /\ input = NoInput
    /\ document = NoValue
    /\ url = ""
    /\ bea_json = NoValue
    /\ request = <<>>
    /\ result = NoValue
    /\ klass = ""
    /\ exc = NoException
    /\ response = NoResponse

Locate ==
    /\ pc \in {"first", "second"}
    /\ Call(FALSE)
    /\ pc' = IF pc = "first" THEN "second" ELSE "called"
    /\ UNCHANGED <<input, document, url, bea_json, request, result, klass, exc, response>>

LocatePop ==
    /\ pc \in {"first", "second"}
    /\ Call(TRUE)
    /\ pc' = IF pc = "first" THEN "second" ELSE "called"
    /\ UNCHANGED <<input, document, url, bea_json, request, result, klass, exc, response>>

NextLocate == Locate \/ LocatePop

SpecLocate == InitLocate /\ [][NextLocate]_vars

----------------------------------------------------------------------------
(* Claims about getitem_any_level, checked under SpecLocate *)

CallIds == 1..Len(calls)

\* C1: whenever the searched key is a key of a dict whose ancestors are all
\* dicts or one-element lists, getitem_any_level(tree, key) does not raise
\* KeyError and returns a value that the tree stores under that key.
C1_FoundThroughWrappers ==
    \A i \in CallIds :
        (~calls[i].pop /\ ReachableThroughWrappers(calls[i].before, SearchKey))
        => /\ calls[i].ok
           /\ calls[i].val \in ValuesUnder(calls[i].before, SearchKey)

\* C1 witness: the key sits two dicts and a one-element list below the root
C1_Witness ==
    \E i \in CallIds :
        /\ ~calls[i].pop
        /\ calls[i].before = Map(<<Item("a", Lst(<<Map(<<Item("k", V1)>>)>>))>>)
        /\ calls[i].ok
        /\ calls[i].val = V1

\* C2: a search that starts at a list succeeds exactly when some element of
\* the list, the first or a later one, holds the key at some depth.
C2_ListSearchesEveryElement ==
    \A i \in CallIds :
        calls[i].before.t = "seq"
        => (calls[i].ok <=>
              \E j \in 1..Len(calls[i].before.kids) :
                  OccursAnywhere(calls[i].before.kids[j].v, SearchKey))

\* C3 as stated: on every tree, a successful pop of the key followed by a
\* plain search of the same key raises KeyError.
C3_PopThenLocateFails ==
    \A i \in CallIds :
        (calls[i].pop /\ calls[i].ok /\ i + 1 \in CallIds /\ ~calls[i + 1].pop)
        => ~calls[i + 1].ok

\* C3 amended: when the key occurs exactly once in the tree, a successful
\* pop of the key followed by a plain search of the same key raises KeyError.
C3_PopThenLocateFailsSingle ==
    \A i \in CallIds :
        (/\ calls[i].pop /\ calls[i].ok /\ i + 1 \in CallIds /\ ~calls[i + 1].pop
         /\ Occurrences(calls[i].before, SearchKey) = 1)
        => ~calls[i + 1].ok

\* C3 witness: a tree with one occurrence, popped and then searched in vain
C3_Witness ==
    /\ Len(calls) = 2
    /\ calls[1].pop /\ calls[1].ok /\ calls[1].val = V1
    /\ Occurrences(calls[1].before, SearchKey) = 1
    /\ ~calls[2].pop /\ ~calls[2].ok
    /\ Occurrences(tree, SearchKey) = 0

----------------------------------------------------------------------------
(* Claims about from_response, checked under Spec *)

Terminal == pc \in {"returned", "raised"}
PastErrorCheck == pc \notin {"json", "check_error"}
UrlInMessage == url \in SeqToSet(exc.msg)

\* the Error blocks of a document, wherever they are
ErrorBlocks(doc) == ValuesUnder(doc, "Error")
HoldsBoth(block) ==
    /\ block.t = "map"
    /\ DictHas(block.kids, "APIErrorCode")
    /\ DictHas(block.kids, "APIErrorDescription")

\* C4: whenever the document holds, at any depth, an Error block with both
\* APIErrorCode and APIErrorDescription, from_response raises the API error
\* with the code and the description in its message before it reads the
\* request parameters, and returns no response.
C4_ErrorBlockRaises ==
    (PastErrorCheck /\ \E b \in ErrorBlocks(document) : HoldsBoth(b))
    => /\ pc = "raised"
       /\ exc.type = "BEAAPIError"
       /\ \E b \in ErrorBlocks(document) :
             /\ HoldsBoth(b)
             /\ DictGet(b.kids, "APIErrorCode").s \in SeqToSet(exc.msg)
             /\ DictGet(b.kids, "APIErrorDescription").s \in SeqToSet(exc.msg)
       /\ response.kind = "none"

\* an Error block found through dicts and one-element lists does raise it
ErrorBlockRaisesThroughWrappers ==
    (/\ PastErrorCheck
     /\ ReachableThroughWrappers(document, "Error")
     /\ \A b \in ErrorBlocks(document) : HoldsBoth(b))
    => pc = "raised" /\ exc.type = "BEAAPIError"

\* C5: whenever the document holds an Error block without APIErrorCode or
\* without APIErrorDescription, the run never goes on to the request
\* parameters, the result block or a builder.
C5_DeficientErrorIsFatal ==
    (\E b \in ErrorBlocks(document) : b.t = "map" /\ ~HoldsBoth(b))
    => pc \notin {"request_parameters", "results", "classify", "build", "returned"}

\* what the options say about the response
KnownDataset(o) == o.dataset # Absent /\ IdentifierRules(o.dataset).known
RowsCarryUnit(o) == o.unit # "none"
DimensionsDeclareUnit(o) == o.dims = "list" /\ o.declUnit
ReadableDimensions(o) ==
    \/ o.dims = "list"
    \/ o.dims = "encoded" /\ IdentifierRules(o.dataset).ids = <<"SeriesCode">>

\* a data response with everything the builder needs, the Dimensions
\* possibly at odds with the rows about UNIT_MULT
DataInput(o) ==
    /\ o.body = "data" /\ o.err = "none" /\ o.params = "list" /\ o.method = "GETDATA"
    /\ KnownDataset(o)
    /\ o.shape \in {"nested", "flattened", "wrapped"}
    /\ ReadableDimensions(o)
    /\ Len(o.rows) >= 1

WellFormedData(o) == DataInput(o) /\ (DimensionsDeclareUnit(o) <=> RowsCarryUnit(o))

PeriodsOf(o) == {o.rows[i].period : i \in 1..Len(o.rows)}

RECURSIVE JoinIds(_, _, _)
\* the identifier values of a row, joined by "_" in the order of the table
JoinIds(o, r, k) ==
    LET ids == IdentifierRules(o.dataset).ids IN
    IF k > Len(ids) THEN <<>>
    ELSE (IF k = 1 THEN <<>> ELSE <<"_">>) \o Chars(IdValue(ids, k, r.sv)) \o JoinIds(o, r, k + 1)

CompositeKeys(o) == [i \in 1..Len(o.rows) |-> JoinIds(o, o.rows[i], 1)]

Payload == response.extra.data

\* the value the payload holds for the i-th observation row
PayloadValue(i) ==
    IF Payload.shape = "matrix" THEN Payload.values[i].value ELSE Payload.values[i]

ShapeByPeriods ==
    /\ pc = "returned"
    /\ Cardinality(PeriodsOf(input)) = 1
       => /\ Payload.shape = "vector"
          /\ Payload.name = Chars(input.rows[1].period)
          /\ Payload.index = CompositeKeys(input)
    /\ Cardinality(PeriodsOf(input)) >= 2 => Payload.shape = "matrix"

\* C6: a well-formed data response with one or more observation rows is
\* built; with one distinct period the payload is a vector indexed by the
\* composite series keys and named by the period, with two or more distinct
\* periods it is the matrix of the reshaper.
C6_ShapeByPeriods ==
    (Terminal /\ WellFormedData(input)) => ShapeByPeriods

\* the same for responses of two or more rows
ShapeByPeriodsFromTwoRows ==
    (Terminal /\ WellFormedData(input) /\ Len(input.rows) >= 2) => ShapeByPeriods

NumericRawValues == RawValues \ {"(D)"}
AllNumeric(o) == \A i \in 1..Len(o.rows) : o.rows[i].raw \in NumericRawValues

\* the number a cell stands for: its own, or the one its text writes
NumberOf(c) ==
    LET n == IF c.kind = "text" /\ c.times = 1 THEN ParseNumber(c.s) ELSE c IN
    IF n.kind \in {"int", "float"} THEN Normalize(n.m, n.d) ELSE NoCell

\* rawValue with the thousands separators stripped, times 10^exponent
Rescaled(raw, unit) ==
    LET n == ParseNumber(StripCommas(Chars(raw)))
        e == IF unit = "none" THEN 0 ELSE DigitsValue(Chars(unit))
    IN  Normalize(n.m * Pow10(e), n.d)

ExponentFromRows ==
    /\ pc = "returned"
    /\ \A i \in 1..Len(input.rows) :
          NumberOf(PayloadValue(i)) = Rescaled(input.rows[i].raw, input.unit)
    /\ "UNIT_MULT" \notin SeqToSet(response.extra.metadata.columns)

\* C7: every observation row yields rawValue * 10^exponent when the rows
\* carry UNIT_MULT and rawValue when they do not, whether or not the
\* Dimensions declare UNIT_MULT; no mismatch aborts the assembly or leaves
\* the exponent among the metadata columns.  (Stated for columns of numbers
\* in responses of two or more rows.)
C7_ExponentFromRows ==
    (Terminal /\ DataInput(input) /\ AllNumeric(input) /\ Len(input.rows) >= 2)
    => ExponentFromRows

\* the same for responses whose Dimensions agree with the rows
ExponentFromRowsWhenDeclared ==
    (Terminal /\ WellFormedData(input) /\ AllNumeric(input) /\ Len(input.rows) >= 2)
    => ExponentFromRows

\* C8: a raw-value column of numbers and sentinels is assembled without
\* failure and without losing a row: every number, decimal or negative
\* included, becomes a number and every sentinel stays the string it was;
\* the column is declared object when it is mixed and numeric when it holds
\* numbers only.  (Stated for responses of two or more rows without
\* UNIT_MULT.)
C8_SentinelsKept ==
    (Terminal /\ WellFormedData(input) /\ ~RowsCarryUnit(input) /\ Len(input.rows) >= 2)
    => /\ pc = "returned"
       /\ Len(Payload.values) = Len(input.rows)
       /\ \A i \in 1..Len(input.rows) :
             IF input.rows[i].raw \in NumericRawValues
             THEN /\ PayloadValue(i).kind \in {"int", "float"}
                  /\ NumberOf(PayloadValue(i)) = Rescaled(input.rows[i].raw, "none")
             ELSE PayloadValue(i) = TextCell(Chars(input.rows[i].raw))
       /\ ~AllNumeric(input) => Payload.dtype = "object"
       /\ AllNumeric(input) => Payload.dtype \in {"int64", "float64"}

\* no row is lost and every sentinel stays the string it was
SentinelRowsKept ==
    (Terminal /\ WellFormedData(input) /\ ~RowsCarryUnit(input) /\ Len(input.rows) >= 2)
    => /\ pc = "returned"
       /\ Len(Payload.values) = Len(input.rows)
       /\ \A i \in 1..Len(input.rows) :
             input.rows[i].raw \notin NumericRawValues
             => PayloadValue(i) = TextCell(Chars(input.rows[i].raw))

\* C9 as stated: every exception from_response raises carries the URL
C9_EveryErrorNamesUrl ==
    pc = "raised" => UrlInMessage /\ response.kind = "none"

\* the fatal conditions of a document without an API error
NoErrorRaised(o) == o.err \in {"none", "second", "nodesc", "text"}
FatalBeforeBuilder(o) ==
    /\ o.body # "nojson" /\ NoErrorRaised(o)
    /\ \/ o.params = "absent"
       \/ o.shape = "absent"
       \/ ~DictHas(response_classes, o.method)
FatalInBuilder(o) ==
    /\ o.body # "nojson" /\ NoErrorRaised(o)
    /\ o.params = "list" /\ o.shape # "absent" /\ o.method = "GETDATA"
    /\ \/ ~KnownDataset(o)
       \/ o.body # "data"
       \/ o.dims \in {"absent", "malformed"}

\* C9 amended: every fatal condition ends from_response with one exception
\* and no response; the message names the URL exactly when the exception
\* comes out of the constructor of the response class (unknown dataset,
\* missing Dimensions or Data, malformed string-encoded field), and not for
\* an API error, a missing RequestParam, Results or METHOD, an unsupported
\* method or a response without json.
C9_BuilderErrorsNameUrl ==
    /\ pc = "raised"
       => /\ response.kind = "none"
          /\ exc.type # "none"
          /\ UrlInMessage <=> klass # ""
          /\ UrlInMessage <=> exc.type = "ValueError"
    /\ pc # "raised" => exc.type = "none"
    /\ (Terminal /\ FatalBeforeBuilder(input)) => (pc = "raised" /\ ~UrlInMessage)
    /\ (Terminal /\ FatalInBuilder(input)) => (pc = "raised" /\ UrlInMessage)
    /\ (Terminal /\ input.body = "nojson") => (pc = "raised" /\ ~UrlInMessage)
    /\ (/\ Terminal
        /\ ReachableThroughWrappers(document, "Error")
        /\ \A b \in ErrorBlocks(document) : HoldsBoth(b))
       => (pc = "raised" /\ exc.type = "BEAAPIError" /\ ~UrlInMessage)

\* C9 witness: an unknown dataset stops the builder, the URL is in the message
C9_Witness ==
    /\ pc = "raised"
    /\ input.dataset = "Census" /\ input.dims = "list"
    /\ klass = "DataResponse"
    /\ exc = Exception("ValueError", <<"could not create BEAResponse. url is \n", url>>)
    /\ response.kind = "none"

\* C10: for every DATASETNAME, whatever its case, series_identifiers and
\* period_identifier give the columns of the table for the eleven datasets
\* of the table and raise for every other name, both on the same names; a
\* data response of a dataset outside the table is never returned.
C10_IdentifierRules ==
    (pc \in {"results", "classify", "build", "returned"} /\ DictHas(request, "DATASETNAME"))
    => LET name == DictGet(request, "DATASETNAME").s
           rule == IdentifierRules(name)
           series == series_identifiers(request)
           period == period_identifier(request)
       IN  /\ series.ok = rule.known
           /\ period.ok = rule.known
           /\ rule.known => series.ids = rule.ids /\ period.ids = <<rule.period>>
           /\ (pc = "returned" /\ klass = "DataResponse") => rule.known
           /\ Cardinality({n \in LowerCaseNames \cup UnknownNames :
                   series_identifiers(<<Item("DATASETNAME", Str(n))>>).ok}) = 11

\* C10 witness: a data response of MNE, spelled in capitals, indexed by the
\* three identifier columns joined in the order of the table
C10_Witness ==
    /\ pc = "returned" /\ klass = "DataResponse"
    /\ DictGet(request, "DATASETNAME").s = "MNE"
    /\ series_identifiers(request).ids = <<"SeriesID", "RowCode", "ColumnCode">>
    /\ Payload.index = <<<<"A", "_", "1", "0", "_", "Z">>, <<"B", "_", "1", "0", "_", "Z">>>>

====
